---- MODULE Spec2Model ----
(***************************************************************************)
(* llm-commit-msg: the bounded prompt gatherer, the streaming completion   *)
(* client and the generate action (src/llm_commit_msg/generate.py), and    *)
(* the command line entry points (src/llm_commit_msg/main.py).             *)
(*                                                                         *)
(* A Python str is a sequence of one-character strings, so that len(),     *)
(* slicing, join, split, strip and replace are computed on characters.     *)
(***************************************************************************)
EXTENDS Integers, Sequences, FiniteSets, TLC

VARIABLES
    args,           \* the invocation: entry point and flags
    repo,           \* the git repository: history and index
    environ,        \* os.environ's OPENAI_API_KEY
    tokenfile,      \* the file --api-token-file names
    server,         \* the completion endpoint's behaviour
    pc,             \* where the run is
    gathered,       \* _generate_prompt's three blocks, as returned
    prompt,         \* _generate_prompt's result
    sent,           \* the HTTP requests issued so far
    nread,          \* response lines consumed from resp.iter_lines()
    yielded,        \* the fragments _query_llm has yielded, in order
    exc,            \* str() of the exception raised, <<>> while none is
    out             \* standard output

vars == <<args, repo, environ, tokenfile, server, pc, gathered, prompt, sent,
          nread, yielded, exc, out>>

---------------------------------------------------------------------------
(* Bounds of the model. *)

\* the longest response body, in lines, the endpoint serves
MaxLines == 3
\* the longest history, in commits, a repository holds
MaxCommits == 11

---------------------------------------------------------------------------
(* Python's str operations, on sequences of characters. *)

Rep(c, n) == [i \in 1..n |-> c]

Min(a, b) == IF a < b THEN a ELSE b

Max(a, b) == IF a < b THEN b ELSE a

WHITESPACE == {" ", "\n", "\t", "\r"}

\* s[:n] for n >= 0
Prefix(s, n) == SubSeq(s, 1, Min(n, Len(s)))

\* s[-n:] for n > 0
Suffix(s, n) == SubSeq(s, Max(1, Len(s) - n + 1), Len(s))

\* a list comprehension's list, its items computed once
list(items) == items \o <<>>

\* sep.join(parts)
RECURSIVE join(_, _)
join(sep, parts) ==
    IF parts = <<>> THEN <<>>
    ELSE IF Len(parts) = 1 THEN parts[1]
    ELSE join(sep, SubSeq(parts, 1, Len(parts) - 1)) \o sep \o parts[Len(parts)]

\* s.split('\n'): the pieces between the newlines, empty ones included
split(s) ==
    LET P == {i \in 1..Len(s) : s[i] = "\n"}
        n == Cardinality(P)
        \* the k-th newline; the ends of s stand for a 0th and a last one
        pos(k) == IF k = 0 THEN 0
                  ELSE IF k = n + 1 THEN Len(s) + 1
                  ELSE CHOOSE p \in P : Cardinality({q \in P : q < p}) = k - 1
    IN  [k \in 1..(n + 1) |-> SubSeq(s, pos(k - 1) + 1, pos(k) - 1)]

\* s.strip()
strip(s) ==
    LET n == Len(s)
        lead == CHOOSE k \in 0..n :
                    /\ \A i \in 1..k : s[i] \in WHITESPACE
                    /\ k = n \/ s[k + 1] \notin WHITESPACE
        trail == CHOOSE k \in 0..n :
                    /\ \A i \in (n - k + 1)..n : s[i] \in WHITESPACE
                    /\ k = n \/ s[n - k] \notin WHITESPACE
    IN  IF lead = n THEN <<>> ELSE SubSeq(s, lead + 1, n - trail)

\* s.replace('\n', '\n#')
RECURSIVE replace_newlines(_)
replace_newlines(s) ==
    IF s = <<>> THEN <<>>
    ELSE (IF Head(s) = "\n" THEN <<"\n", "#">> ELSE <<Head(s)>>)
         \o replace_newlines(Tail(s))

\* s.startswith(p)
startswith(s, p) == Len(s) >= Len(p) /\ SubSeq(s, 1, Len(p)) = p

\* s.removeprefix(p)
removeprefix(s, p) == IF startswith(s, p) THEN SubSeq(s, Len(p) + 1, Len(s)) ELSE s

\* needle in s
Contains(s, needle) ==
    \E i \in 0..(Len(s) - Len(needle)) : SubSeq(s, i + 1, i + Len(needle)) = needle

\* str(n) for a natural number
RECURSIVE str_int(_)
str_int(n) ==
    LET digit == <<"0", "1", "2", "3", "4", "5", "6", "7", "8", "9">>
    IN  IF n < 10 THEN <<digit[n + 1]>>
        ELSE str_int(n \div 10) \o <<digit[(n % 10) + 1]>>

---------------------------------------------------------------------------
(* The budgets. *)

MAX_TOKENS == 65536
MAX_STAGED_DIFF_CONTEXT == 9
MAX_STAGED_DIFF_CHARS == 80 * 512
MAX_STAGED_FILES == 48
MAX_STAGED_FILES_CHARS == 80 * MAX_STAGED_FILES
MAX_LOOKBACK_COMMITS == 10
MAX_LOOKBACK_CHARS == 80 * 10 * MAX_LOOKBACK_COMMITS

ELLIPSIS ==
    <<".", ".", ".">>

_truncate_keeps_ellipsis_out(s, max_len) ==
    IF Len(s) < max_len THEN s ELSE Prefix(s, max_len) \o ELLIPSIS

_truncate(s, max_len) ==
    IF Len(s) < max_len THEN s ELSE Prefix(s, max_len - 3) \o ELLIPSIS

---------------------------------------------------------------------------
(* The repository, as GitPython shows it.                                  *)
(*   repo.state    "ok", "not_a_repo" (git.Repo raises) or "git_error"     *)
(*                 (git diff fails)                                        *)
(*   repo.commits  newest first; a commit message is lead newlines, body   *)
(*                 characters and trail newlines                           *)
(*   repo.staged   the index's entries against HEAD; an entry has an       *)
(*                 a_path and a b_path (their lengths, 0 for None), ctx    *)
(*                 unchanged lines of ctxLen characters on either side of  *)
(*                 chg changed lines of chgLen characters                  *)
(***************************************************************************)

\* commit.message
commit_message(commit) ==
    Rep("\n", commit.lead) \o Rep("m", commit.body) \o Rep("\n", commit.trail)

\* repo.iter_commits(max_count=count)
iter_commits(commits, count) == SubSeq(commits, 1, Min(count, Len(commits)))

\* the character U+0060, which TLA+ cannot write in a string
BACKTICK == "backtick"

\* '```\n'
FENCE_OPEN == <<BACKTICK, BACKTICK, BACKTICK, "\n">>

\* '\n```\n\n'
FENCE_CLOSE == <<"\n", BACKTICK, BACKTICK, BACKTICK, "\n", "\n">>

\* the body of the loop of _gather_lookback_commit_messages: result at count
lookback_render(commits, count) ==
    LET cs == iter_commits(commits, count)
        messages == list([i \in 1..Len(cs) |->
                        FENCE_OPEN \o strip(commit_message(cs[i])) \o FENCE_CLOSE])
    IN  join(<<"\n">>, messages)

\* the loop: the count it ends at, from count down to 3
RECURSIVE lookback_count(_, _)
lookback_count(commits, count) ==
    IF Len(lookback_render(commits, count)) <= MAX_LOOKBACK_CHARS THEN count
    ELSE IF count - 1 > 2 THEN lookback_count(commits, count - 1)
    ELSE count

_gather_lookback_commit_messages_untruncated(commits) ==
    LET count == lookback_count(commits, MAX_LOOKBACK_COMMITS)
    IN  [count |-> count, result |-> lookback_render(commits, count)]

_gather_lookback_commit_messages(commits) ==
    LET count == lookback_count(commits, MAX_LOOKBACK_COMMITS)
    IN  [count |-> count,
         result |-> _truncate(lookback_render(commits, count), MAX_LOOKBACK_CHARS)]

\* d.a_path or d.b_path
entry_path(d) ==
    IF d.a_path > 0 THEN Rep("a", d.a_path) ELSE Rep("b", d.b_path)

\* [d.a_path or d.b_path for d in diff if d.a_path or d.b_path]
RECURSIVE staged_paths(_)
staged_paths(diff) ==
    IF diff = <<>> THEN <<>>
    ELSE LET d == diff[Len(diff)]
             rest == staged_paths(SubSeq(diff, 1, Len(diff) - 1))
         IN  IF d.a_path > 0 \/ d.b_path > 0 THEN Append(rest, entry_path(d))
             ELSE rest

\* the body of the loop of _get_staged_files: result at max_files
files_render(staged, max_files) ==
    join(<<"\n">>, SubSeq(staged, 1, Min(max_files, Len(staged))))

RECURSIVE files_count(_, _)
files_count(staged, max_files) ==
    IF Len(files_render(staged, max_files)) <= MAX_STAGED_FILES_CHARS THEN max_files
    ELSE IF max_files - 1 > 2 THEN files_count(staged, max_files - 1)
    ELSE max_files

_get_staged_files(diff) ==
    LET staged == staged_paths(diff)
        max_files == files_count(staged, MAX_STAGED_FILES)
    IN  [count |-> max_files,
         result |-> _truncate(files_render(staged, max_files), MAX_STAGED_FILES_CHARS)]

---------------------------------------------------------------------------
(* git diff --staged -U<context>, and unidiff's view of it. *)

DIFF_GIT_A ==
    <<"d", "i", "f", "f", " ", "-", "-", "g", "i", "t", " ", "a", "/">>

SPACE_B ==
    <<" ", "b", "/">>

MINUS_A ==
    <<"-", "-", "-", " ", "a", "/">>

PLUS_B ==
    <<"+", "+", "+", " ", "b", "/">>

HUNK_HEADER ==
    <<"@", "@", " ", "@", "@">>

\* n times the text s
RECURSIVE times(_, _)
times(s, n) == IF n = 0 THEN <<>> ELSE times(s, n - 1) \o s

\* n lines, each the marker first, then len times the character c, then a newline
diff_lines(first, c, len, n) == times(<<first>> \o Rep(c, len) \o <<"\n">>, n)

\* the patch of one index entry at a context width, every line ended by a newline:
\* the four header lines, the hunk header, then the unchanged lines the width
\* allows around the changed ones
file_patch(d, context) ==
    LET p == entry_path(d)
        k == Min(context, d.ctx)
    IN  DIFF_GIT_A \o p \o SPACE_B \o p \o <<"\n">>
        \o MINUS_A \o p \o <<"\n">>
        \o PLUS_B \o p \o <<"\n">>
        \o HUNK_HEADER \o <<"\n">>
        \o diff_lines(" ", "c", d.ctxLen, k)
        \o diff_lines("+", "x", d.chgLen, d.chg)
        \o diff_lines(" ", "c", d.ctxLen, k)

\* the index entries git diff reports: those with a path
RECURSIVE diff_entries(_)
diff_entries(diff) ==
    IF diff = <<>> THEN <<>>
    ELSE LET d == diff[Len(diff)]
             rest == diff_entries(SubSeq(diff, 1, Len(diff) - 1))
         IN  IF d.a_path > 0 \/ d.b_path > 0 THEN Append(rest, d) ELSE rest

\* GitPython returns a command's output without its last newline
strip_last_newline(s) ==
    IF s # <<>> /\ s[Len(s)] = "\n" THEN SubSeq(s, 1, Len(s) - 1) ELSE s

\* [str(patched_file) for patched_file in unidiff.PatchSet(result)], where result
\* is repo.git.diff('--staged', f'-U{context}'): the patches in the order of the
\* diff, the last without the newline GitPython took
patch_set(diff, context) ==
    LET ds == diff_entries(diff)
    IN  list([i \in 1..Len(ds) |->
                IF i = Len(ds) THEN strip_last_newline(file_patch(ds[i], context))
                ELSE file_patch(ds[i], context)])

\* str(repo.git.diff('--staged', f'-U{context}'))
git_diff(diff, context) == join(<<>>, patch_set(diff, context))

TRUNCATED_MARKER ==
    <<".", ".", ".", " ", "[", "t", "r", "u", "n", "c", "a", "t", "e", "d", "]", " ", ".", ".",
      ".">>

_truncate_patched_file_keeps_when_longer(file_diff, keep_lines) ==
    LET lines == split(file_diff)
    IN  IF Len(lines) <= 2 * keep_lines + 2 THEN file_diff
        ELSE join(<<"\n">>, Prefix(lines, keep_lines) \o <<TRUNCATED_MARKER>>
                             \o Suffix(lines, keep_lines))

_truncate_patched_file(file_diff, keep_lines) ==
    LET lines == split(file_diff)
    IN  IF Len(lines) <= 2 * keep_lines + 1 THEN file_diff
        ELSE join(<<"\n">>, Prefix(lines, keep_lines) \o <<TRUNCATED_MARKER>>
                             \o Suffix(lines, keep_lines))

max_single_file_chars == MAX_STAGED_DIFF_CHARS \div 2

\* processed_diffs of the second loop of _get_staged_diff at a context width
processed_diffs(diff, context) ==
    LET patches == patch_set(diff, context)
        keep_lines == 2 * context
    IN  list([i \in 1..Len(patches) |->
                IF Len(patches[i]) > max_single_file_chars
                THEN _truncate_patched_file(patches[i], keep_lines)
                ELSE patches[i]])

\* the first loop: the width it returns at, 0 when it returns at none
RECURSIVE phase1_context(_, _)
phase1_context(diff, context) ==
    IF Len(git_diff(diff, context)) <= MAX_STAGED_DIFF_CHARS THEN context
    ELSE IF context - 1 > 1 THEN phase1_context(diff, context - 1)
    ELSE 0

\* the second loop: the width it returns at, 0 when it returns at none
RECURSIVE phase2_context(_, _)
phase2_context(diff, context) ==
    IF Len(join(<<>>, processed_diffs(diff, context))) <= MAX_STAGED_DIFF_CHARS
    THEN context
    ELSE IF context - 1 > 1 THEN phase2_context(diff, context - 1)
    ELSE 0

\* the result, with the return statement it left by and the context width there
_get_staged_diff(diff) ==
    LET c1 == phase1_context(diff, MAX_STAGED_DIFF_CONTEXT)
        c2 == phase2_context(diff, MAX_STAGED_DIFF_CONTEXT)
    IN  IF c1 > 0
        THEN [via |-> "phase1", context |-> c1, result |-> git_diff(diff, c1)]
        ELSE IF c2 > 0
        THEN [via |-> "phase2", context |-> c2,
              result |-> join(<<>>, processed_diffs(diff, c2))]
        ELSE [via |-> "truncate", context |-> 2,
              result |-> _truncate(join(<<>>, processed_diffs(diff, 2)),
                                   MAX_STAGED_DIFF_CHARS)]

---------------------------------------------------------------------------
(* The texts of the program and of the libraries and servers it talks to. *)

PROMPT_HEAD ==
    <<"Y", "o", "u", " ", "a", "r", "e", " ", "a", " ", "c", "o", "m", "m", "i", "t", " ", "m",
      "e", "s", "s", "a", "g", "e", " ", "g", "e", "n", "e", "r", "a", "t", "o", "r", ".",
      "\n", "S", "u", "g", "g", "e", "s", "t", " ", "a", " ", "c", "o", "n", "c", "i", "s",
      "e", " ", "c", "o", "m", "m", "i", "t", " ", "m", "e", "s", "s", "a", "g", "e", " ", "f",
      "o", "r", " ", "t", "h", "e", " ", "f", "o", "l", "l", "o", "w", "i", "n", "g", " ", "d",
      "i", "f", "f", " ", "c", "h", "a", "n", "g", "e", "s", ".", "\n", "\n", "A", " ", "h",
      "a", "n", "d", "f", "u", "l", " ", "o", "f", " ", "r", "e", "c", "e", "n", "t", " ", "c",
      "o", "m", "m", "i", "t", "s", " ", "f", "r", "o", "m", " ", "t", "h", "e", " ", "r", "e",
      "p", "o", "s", "i", "t", "o", "r", "y", ",", " ", "i", "n", " ", "t", "r", "i", "p", "l",
      "e", " ", "b", "a", "c", "k", "t", "i", "c", "k", "s", ":", "\n">>

\* '\n\nFiles changed:\n'
PROMPT_FILES ==
    <<"\n", "\n", "F", "i", "l", "e", "s", " ", "c", "h", "a", "n", "g", "e", "d", ":", "\n">>

PROMPT_DIFF ==
    <<"\n", "\n", "T", "h", "e", " ", "d", "i", "f", "f", " ", "t", "o", " ", "s", "u", "m",
      "m", "a", "r", "i", "z", "e", ":", "\n", BACKTICK, BACKTICK, BACKTICK, "\n">>

PROMPT_TAIL ==
    <<"\n", BACKTICK, BACKTICK, BACKTICK, "\n", "\n", "O", "u", "t", "p", "u", "t", " ", "o",
      "n", "l", "y", " ", "t", "h", "e", " ", "c", "o", "m", "m", "i", "t", " ", "m", "e", "s",
      "s", "a", "g", "e", "\n", "w", "i", "t", "h", " ", "t", "h", "e", " ", "s", "t", "y",
      "l", "e", " ", "m", "a", "t", "c", "h", "i", "n", "g", " ", "t", "h", "e", " ", "c", "o",
      "n", "v", "e", "n", "t", "i", "o", "n", " ", "s", "e", "t", " ", "b", "y", " ", "p", "r",
      "e", "v", "i", "o", "u", "s", " ", "c", "o", "m", "m", "i", "t", "s", ",", "\n", "a",
      "n", "d", " ", "n", "o", "t", "h", "i", "n", "g", " ", "e", "l", "s", "e", ".", "\n",
      "B", "e", " ", "c", "o", "n", "c", "i", "s", "e", " ", "i", "n", " ", "t", "h", "e", " ",
      "c", "o", "m", "m", "i", "t", " ", "m", "e", "s", "s", "a", "g", "e", " ", "s", "u", "b",
      "j", "e", "c", "t", " ", "l", "i", "n", "e", " ", "(", "7", "2", " ", "c", "h", "a", "r",
      "s", " ", "m", "a", "x", ")", ".", "\n", "T", "h", "e", "n", " ", "e", "l", "a", "b",
      "o", "r", "a", "t", "e", " ", "m", "o", "r", "e", " ", "i", "n", " ", "t", "h", "e", " ",
      "c", "o", "m", "m", "i", "t", " ", "m", "e", "s", "s", "a", "g", "e", " ", "b", "o", "d",
      "y", ".", "\n">>

\* 'OPENAI_API_KEY not set, --api-token-file not provided'
MSG_NO_API_KEY ==
    <<"O", "P", "E", "N", "A", "I", "_", "A", "P", "I", "_", "K", "E", "Y", " ", "n", "o", "t",
      " ", "s", "e", "t", ",", " ", "-", "-", "a", "p", "i", "-", "t", "o", "k", "e", "n", "-",
      "f", "i", "l", "e", " ", "n", "o", "t", " ", "p", "r", "o", "v", "i", "d", "e", "d">>

\* '/tmp'
MSG_NOT_A_REPO ==
    <<"/", "t", "m", "p">>

\* "Cmd('git') failed due to: exit code(129)\n  cmdline: git diff --staged -U9"
MSG_GIT_ERROR ==
    <<"C", "m", "d", "(", "'", "g", "i", "t", "'", ")", " ", "f", "a", "i", "l", "e", "d", " ",
      "d", "u", "e", " ", "t", "o", ":", " ", "e", "x", "i", "t", " ", "c", "o", "d", "e", "(",
      "1", "2", "9", ")", "\n", " ", " ", "c", "m", "d", "l", "i", "n", "e", ":", " ", "g",
      "i", "t", " ", "d", "i", "f", "f", " ", "-", "-", "s", "t", "a", "g", "e", "d", " ", "-",
      "U", "9">>

\* "[Errno 2] No such file or directory: 'token'"
MSG_NO_TOKEN_FILE ==
    <<"[", "E", "r", "r", "n", "o", " ", "2", "]", " ", "N", "o", " ", "s", "u", "c", "h", " ",
      "f", "i", "l", "e", " ", "o", "r", " ", "d", "i", "r", "e", "c", "t", "o", "r", "y", ":",
      " ", "'", "t", "o", "k", "e", "n", "'">>

\* 'Connection refused'
MSG_CONNECTION ==
    <<"C", "o", "n", "n", "e", "c", "t", "i", "o", "n", " ", "r", "e", "f", "u", "s", "e", "d">>

\* 'Expecting property name enclosed in double quotes: line 1 column 2 (char 1)'
MSG_JSON_DECODE ==
    <<"E", "x", "p", "e", "c", "t", "i", "n", "g", " ", "p", "r", "o", "p", "e", "r", "t", "y",
      " ", "n", "a", "m", "e", " ", "e", "n", "c", "l", "o", "s", "e", "d", " ", "i", "n", " ",
      "d", "o", "u", "b", "l", "e", " ", "q", "u", "o", "t", "e", "s", ":", " ", "l", "i", "n",
      "e", " ", "1", " ", "c", "o", "l", "u", "m", "n", " ", "2", " ", "(", "c", "h", "a", "r",
      " ", "1", ")">>

\* "'choices'"
MSG_KEY_ERROR ==
    <<"'", "c", "h", "o", "i", "c", "e", "s", "'">>

\* "generate() got an unexpected keyword argument 'show_off'"
MSG_TYPE_ERROR ==
    <<"g", "e", "n", "e", "r", "a", "t", "e", "(", ")", " ", "g", "o", "t", " ", "a", "n", " ",
      "u", "n", "e", "x", "p", "e", "c", "t", "e", "d", " ", "k", "e", "y", "w", "o", "r", "d",
      " ", "a", "r", "g", "u", "m", "e", "n", "t", " ", "'", "s", "h", "o", "w", "_", "o", "f",
      "f", "'">>

\* ' Client Error: '
CLIENT_ERROR ==
    <<" ", "C", "l", "i", "e", "n", "t", " ", "E", "r", "r", "o", "r", ":", " ">>

\* ' Server Error: '
SERVER_ERROR ==
    <<" ", "S", "e", "r", "v", "e", "r", " ", "E", "r", "r", "o", "r", ":", " ">>

\* ' for url: '
FOR_URL ==
    <<" ", "f", "o", "r", " ", "u", "r", "l", ":", " ">>

\* '/v1/chat/completions'
COMPLETIONS_PATH ==
    <<"/", "v", "1", "/", "c", "h", "a", "t", "/", "c", "o", "m", "p", "l", "e", "t", "i", "o",
      "n", "s">>

\* 'Bearer '
BEARER ==
    <<"B", "e", "a", "r", "e", "r", " ">>

\* 'ERROR: '
ERROR_PREFIX ==
    <<"E", "R", "R", "O", "R", ":", " ">>

\* 'data: '
DATA_PREFIX ==
    <<"d", "a", "t", "a", ":", " ">>

\* '[DONE]'
DONE ==
    <<"[", "D", "O", "N", "E", "]">>

\* 'http://h'
ENDPOINT ==
    <<"h", "t", "t", "p", ":", "/", "/", "h">>

\* 'gpt-oss:20b'
DEFAULT_MODEL ==
    <<"g", "p", "t", "-", "o", "s", "s", ":", "2", "0", "b">>

\* 'sk-env'
KEY_ENV ==
    <<"s", "k", "-", "e", "n", "v">>

\* 'sk-file\n'
TOKEN_TEXT ==
    <<"s", "k", "-", "f", "i", "l", "e", "\n">>

\* ' \n'
BLANK_TEXT ==
    <<" ", "\n">>

\* 'Hello'
HELLO ==
    <<"H", "e", "l", "l", "o">>

\* '\nWorld'
WORLD ==
    <<"\n", "W", "o", "r", "l", "d">>

\* '{"choices":[{"delta":{"content":"Hello"}}]}'
JSON_HELLO ==
    <<"{", "\"", "c", "h", "o", "i", "c", "e", "s", "\"", ":", "[", "{", "\"", "d", "e", "l",
      "t", "a", "\"", ":", "{", "\"", "c", "o", "n", "t", "e", "n", "t", "\"", ":", "\"", "H",
      "e", "l", "l", "o", "\"", "}", "}", "]", "}">>

\* '{"choices":[{"delta":{"content":"\\nWorld"}}]}'
JSON_WORLD ==
    <<"{", "\"", "c", "h", "o", "i", "c", "e", "s", "\"", ":", "[", "{", "\"", "d", "e", "l",
      "t", "a", "\"", ":", "{", "\"", "c", "o", "n", "t", "e", "n", "t", "\"", ":", "\"", "\\",
      "n", "W", "o", "r", "l", "d", "\"", "}", "}", "]", "}">>

\* '{"choices":[{"delta":{"content":""}}]}'
JSON_EMPTY ==
    <<"{", "\"", "c", "h", "o", "i", "c", "e", "s", "\"", ":", "[", "{", "\"", "d", "e", "l",
      "t", "a", "\"", ":", "{", "\"", "c", "o", "n", "t", "e", "n", "t", "\"", ":", "\"", "\"",
      "}", "}", "]", "}">>

\* '{"choices":[{"delta":{"role":"assistant"}}]}'
JSON_ABSENT ==
    <<"{", "\"", "c", "h", "o", "i", "c", "e", "s", "\"", ":", "[", "{", "\"", "d", "e", "l",
      "t", "a", "\"", ":", "{", "\"", "r", "o", "l", "e", "\"", ":", "\"", "a", "s", "s", "i",
      "s", "t", "a", "n", "t", "\"", "}", "}", "]", "}">>

\* '{"error":"busy"}'
JSON_NO_CHOICES ==
    <<"{", "\"", "e", "r", "r", "o", "r", "\"", ":", "\"", "b", "u", "s", "y", "\"", "}">>

\* '{not json}'
NOT_JSON ==
    <<"{", "n", "o", "t", " ", "j", "s", "o", "n", "}">>

\* ': ping'
PING ==
    <<":", " ", "p", "i", "n", "g">>

\* 'server overloaded'
OVERLOADED ==
    <<"s", "e", "r", "v", "e", "r", " ", "o", "v", "e", "r", "l", "o", "a", "d", "e", "d">>

\* 'Not Found'
REASON_404 ==
    <<"N", "o", "t", " ", "F", "o", "u", "n", "d">>

\* 'Internal Server Error'
REASON_500 ==
    <<"I", "n", "t", "e", "r", "n", "a", "l", " ", "S", "e", "r", "v", "e", "r", " ", "E", "r",
      "r", "o", "r">>

---------------------------------------------------------------------------
(* _generate_prompt *)

\* the f-string of _generate_prompt, stripped
prompt_template(lookback_commit_messages, staged_files, staged_diff) ==
    strip(PROMPT_HEAD \o lookback_commit_messages
          \o PROMPT_FILES \o staged_files
          \o PROMPT_DIFF \o staged_diff
          \o PROMPT_TAIL)

\* what _generate_prompt does in a repository: the exception it raises, or the
\* three blocks and the prompt
_generate_prompt(r) ==
    IF r.state = "not_a_repo"
    THEN [raised |-> TRUE, error |-> MSG_NOT_A_REPO]
    ELSE IF r.state = "git_error"
    THEN [raised |-> TRUE, error |-> MSG_GIT_ERROR]
    ELSE LET lookback == _gather_lookback_commit_messages(r.commits)
             files == _get_staged_files(r.staged)
             diff == _get_staged_diff(r.staged)
         IN  [raised |-> FALSE,
              lookback |-> lookback, files |-> files, diff |-> diff,
              prompt |-> prompt_template(lookback.result, files.result, diff.result)]

---------------------------------------------------------------------------
(* _get_api_key and _query_llm *)

\* an option not given
None == "None"

\* f'{None}'
NONE_TEXT == <<"N", "o", "n", "e">>

\* _get_api_key(api_token_file): the key, or the exception; env is os.getenv's
\* answer (set or not, and the value), file the file the path names
_get_api_key(api_token_file, env, file) ==
    IF api_token_file = None
    THEN IF ~env.set \/ env.value = <<>>
         THEN [raised |-> TRUE, error |-> MSG_NO_API_KEY]
         ELSE [raised |-> FALSE, key |-> env.value]
    ELSE IF ~file.exists
    THEN [raised |-> TRUE, error |-> MSG_NO_TOKEN_FILE]
    ELSE [raised |-> FALSE, key |-> strip(file.text)]

\* the request requests.post sends
post_request(model, api_endpoint, api_key, text) ==
    [url |-> api_endpoint \o COMPLETIONS_PATH,
     authorization |-> BEARER \o api_key,
     model |-> model,
     content |-> text,
     max_tokens |-> MAX_TOKENS,
     stream |-> TRUE]

\* resp.raise_for_status(): requests raises HTTPError for a 4xx or a 5xx status,
\* with the status, the reason phrase and the URL in its message
raise_for_status_without_status(status, reason, url) ==
    IF 400 <= status /\ status < 600
    THEN [raised |-> TRUE, error |-> reason \o FOR_URL \o url]
    ELSE [raised |-> FALSE]

raise_for_status(status, reason, url) ==
    IF 400 <= status /\ status < 500
    THEN [raised |-> TRUE,
          error |-> str_int(status) \o CLIENT_ERROR \o reason \o FOR_URL \o url]
    ELSE IF 500 <= status /\ status < 600
    THEN [raised |-> TRUE,
          error |-> str_int(status) \o SERVER_ERROR \o reason \o FOR_URL \o url]
    ELSE [raised |-> FALSE]

\* the documents json.loads reads, each with its value; a dict is a function of
\* its keys
JSON_DOCS ==
    { [text |-> JSON_HELLO,
       value |-> [choices |-> <<[delta |-> [content |-> HELLO]]>>]],
      [text |-> JSON_WORLD,
       value |-> [choices |-> <<[delta |-> [content |-> WORLD]]>>]],
      [text |-> JSON_EMPTY,
       value |-> [choices |-> <<[delta |-> [content |-> <<>>]]>>]],
      [text |-> JSON_ABSENT,
       value |-> [choices |-> <<[delta |-> [role |-> <<"a">>]]>>]],
      [text |-> JSON_NO_CHOICES,
       value |-> [error |-> <<"b">>]] }

\* json.loads(data): the value, or JSONDecodeError
json_loads(data) ==
    IF \E doc \in JSON_DOCS : doc.text = data
    THEN [raised |-> FALSE, value |-> (CHOOSE doc \in JSON_DOCS : doc.text = data).value]
    ELSE [raised |-> TRUE, error |-> MSG_JSON_DECODE]

\* what the body of the loop of _query_llm does with one line:
\* "skip" (continue, or nothing to yield), "break", "raise" or "yield"
stream_line_reads_past_done(line) ==
    IF line = <<>> THEN [do |-> "skip"]
    ELSE IF ~startswith(line, DATA_PREFIX) THEN [do |-> "skip"]
    ELSE LET data == removeprefix(line, DATA_PREFIX)
             chunk == json_loads(data)
         IN  IF data = DONE THEN [do |-> "skip"]
             ELSE IF chunk.raised THEN [do |-> "raise", error |-> chunk.error]
             ELSE IF "choices" \notin DOMAIN chunk.value
             THEN [do |-> "raise", error |-> MSG_KEY_ERROR]
             ELSE LET delta == chunk.value.choices[1].delta
                      content == IF "content" \in DOMAIN delta THEN delta.content
                                 ELSE <<>>
                  IN  IF content # <<>> THEN [do |-> "yield", content |-> content]
                      ELSE [do |-> "skip"]

stream_line(line) ==
    IF line = <<>> THEN [do |-> "skip"]
    ELSE IF ~startswith(line, DATA_PREFIX) THEN [do |-> "skip"]
    ELSE LET data == removeprefix(line, DATA_PREFIX)
             chunk == json_loads(data)
         IN  IF data = DONE THEN [do |-> "break"]
             ELSE IF chunk.raised THEN [do |-> "raise", error |-> chunk.error]
             ELSE IF "choices" \notin DOMAIN chunk.value
             THEN [do |-> "raise", error |-> MSG_KEY_ERROR]
             ELSE LET delta == chunk.value.choices[1].delta
                      content == IF "content" \in DOMAIN delta THEN delta.content
                                 ELSE <<>>
                  IN  IF content # <<>> THEN [do |-> "yield", content |-> content]
                      ELSE [do |-> "skip"]

---------------------------------------------------------------------------
(* generate, and the command *)

\* out.replace('\n', '\n#') when commented_out
commented_drops_marker(commented_out, text) == text

commented(commented_out, text) ==
    IF commented_out THEN replace_newlines(text) ELSE text

\* error = f'ERROR: {e}', commented when commented_out
error_line_unprefixed(commented_out, e) == commented(commented_out, e)

error_line(commented_out, e) == commented(commented_out, ERROR_PREFIX \o e)

\* the keyword parameters generate declares
GENERATE_PARAMS == {"commented_out", "model", "api_token_file", "api_endpoint"}

\* the keyword arguments _generate_cmd passes to generate
GENERATE_CMD_KWARGS ==
    {"commented_out", "model", "api_token_file", "api_endpoint", "show_off"}

---------------------------------------------------------------------------
(* The runs the model explores: a repository, an invocation, an            *)
(* environment and an endpoint.                                            *)

commit(lead, body, trail) == [lead |-> lead, body |-> body, trail |-> trail]

entry(a_path, b_path, ctx, ctxLen, chg, chgLen) ==
    [a_path |-> a_path, b_path |-> b_path,
     ctx |-> ctx, ctxLen |-> ctxLen, chg |-> chg, chgLen |-> chgLen]

\* a small repository: three short commits, one short staged change
SmallCommits == [i \in 1..3 |-> commit(0, 5, 1)]

SmallStaged == <<entry(1, 1, 0, 0, 1, 10)>>

\* body lengths of the newest and of the other commit messages, around the
\* lengths at which 10 and 3 rendered commits meet the lookback budget
MsgLens ==
    { <<5, 5>>, <<0, 5>>, <<789, 789>>, <<790, 789>>, <<791, 789>>, <<2000, 2000>>,
      <<2656, 2656>>, <<2657, 2656>>, <<2657, 2657>>, <<8000, 5>> }

\* histories of 1..MaxCommits commits: the newest message between a leading
\* and two trailing newlines, the others with a trailing one
Histories ==
    { [i \in 1..n |-> IF i = 1 THEN commit(1, m[1], 2) ELSE commit(0, m[2], 1)] :
        n \in 1..MaxCommits, m \in MsgLens }

\* numbers of index entries, around MAX_STAGED_FILES and 3
StagedCounts == {0, 1, 2, 3, 4, 47, 48, 49}

\* path lengths of the first and of the other entries, around the lengths at
\* which 48 and 3 paths meet the file list's budget
PathLens ==
    { <<1, 1>>, <<79, 79>>, <<80, 79>>, <<80, 80>>, <<81, 81>>,
      <<1279, 1279>>, <<1280, 1279>>, <<1280, 1280>> }

\* an index of n entries with a path (every second one an addition, with a
\* b_path alone), with or without one entry that has no path after the first
Indexes ==
    { LET named == [i \in 1..n |->
                      entry(IF i % 2 = 0 THEN 0 ELSE IF i = 1 THEN p[1] ELSE p[2],
                            IF i = 1 THEN p[1] ELSE p[2], 0, 0, 1, 1)]
      IN  IF pathless /\ n > 0
          THEN <<named[1], entry(0, 0, 0, 0, 1, 1)>> \o Tail(named)
          ELSE named :
        n \in StagedCounts, p \in {q \in PathLens : q[1] <= 81},
        pathless \in BOOLEAN }
    \cup
    { [i \in 1..n |-> entry(IF i % 2 = 0 THEN 0 ELSE IF i = 1 THEN p[1] ELSE p[2],
                            IF i = 1 THEN p[1] ELSE p[2], 0, 0, 1, 1)] :
        n \in {k \in StagedCounts : k <= 4}, p \in {q \in PathLens : q[1] > 81} }

\* staged changes of one file: small; wide context; 32 and 33 long changed
\* lines; one line over half the diff budget; 40 long changed lines; context
\* and changes alike; one line that alone meets the budget, and one over it
Shapes ==
    { entry(1, 1, 0, 0, 1, 10), entry(1, 1, 9, 2500, 1, 10),
      entry(1, 1, 0, 0, 32, 700), entry(1, 1, 0, 0, 33, 700),
      entry(1, 1, 0, 0, 1, 21201), entry(1, 1, 0, 0, 40, 1100),
      entry(1, 1, 9, 1000, 14, 1000),
      entry(1, 1, 0, 0, 1, 40918), entry(1, 1, 0, 0, 1, 40919),
      entry(1, 1, 0, 0, 50, 450) }

\* none, one or two of them staged
Changes ==
    {<<>>} \cup {<<a>> : a \in Shapes}
    \cup {<<a, b>> : a, b \in Shapes}

Repos ==
    { [state |-> "ok", commits |-> h, staged |-> SmallStaged] : h \in Histories }
    \cup { [state |-> "ok", commits |-> SmallCommits, staged |-> s] :
             s \in Indexes \cup Changes }

SmallRepo == [state |-> "ok", commits |-> SmallCommits, staged |-> SmallStaged]

Getenv(set, value) == [set |-> set, value |-> value]

File(exists, text) == [exists |-> exists, text |-> text]

\* a call of generate() with a key in the environment
ApiCall(commented_out) ==
    [entry |-> "api", subcommand |-> FALSE, commented_out |-> commented_out,
     model |-> DEFAULT_MODEL, api_token_file |-> None, api_endpoint |-> ENDPOINT,
     show_off |-> 0]

\* the lines an endpoint serves
LINES ==
    { <<>>, PING, DATA_PREFIX \o DONE, DATA_PREFIX \o JSON_HELLO,
      DATA_PREFIX \o JSON_WORLD, DATA_PREFIX \o JSON_EMPTY,
      DATA_PREFIX \o JSON_ABSENT, DATA_PREFIX \o JSON_NO_CHOICES,
      DATA_PREFIX \o NOT_JSON }

RECURSIVE Bodies(_)
Bodies(n) ==
    IF n = 0 THEN {<<>>}
    ELSE Bodies(n - 1) \cup
         {Append(b, l) : b \in {x \in Bodies(n - 1) : Len(x) = n - 1}, l \in LINES}

Endpoint(up, status, reason, lines) ==
    [up |-> up, status |-> status, reason |-> reason, lines |-> lines]

OK_REASON == <<"O", "K">>

\* the endpoints that answer other than with a stream of a 200
Endpoints ==
    { Endpoint(FALSE, 0, <<>>, <<>>) }
    \cup { Endpoint(TRUE, s[1], s[2], b) :
             s \in { <<200, OK_REASON>>, <<204, OK_REASON>>, <<304, OK_REASON>>,
                     <<404, REASON_404>>, <<500, REASON_500>> },
             b \in { <<OVERLOADED>>,
                     <<DATA_PREFIX \o JSON_HELLO, DATA_PREFIX \o DONE>> } }

TokenFiles == {File(FALSE, <<>>), File(TRUE, TOKEN_TEXT), File(TRUE, BLANK_TEXT)}

\* --api-token-file: not given, or naming one of the files
TokenOptions == {<<None, File(FALSE, <<>>)>>} \cup {<<"token", f>> : f \in TokenFiles}

Environs == {Getenv(FALSE, <<>>), Getenv(TRUE, <<>>), Getenv(TRUE, KEY_ENV)}

\* every run starts in one of these
Worlds ==
    \* the gatherer's cases
    { [args |-> ApiCall(FALSE), repo |-> r, environ |-> Getenv(TRUE, KEY_ENV),
       tokenfile |-> File(FALSE, <<>>),
       server |-> Endpoint(TRUE, 200, OK_REASON,
                           <<DATA_PREFIX \o JSON_HELLO, DATA_PREFIX \o DONE>>)] :
        r \in Repos }
    \* the stream's cases
    \cup { [args |-> ApiCall(c), repo |-> SmallRepo, environ |-> Getenv(TRUE, KEY_ENV),
            tokenfile |-> File(FALSE, <<>>),
            server |-> Endpoint(TRUE, 200, OK_REASON, b)] :
             c \in BOOLEAN, b \in Bodies(MaxLines) }
    \* the invocation's, the key's, the repository's and the endpoint's cases
    \cup { [args |-> [entry |-> e[1], subcommand |-> e[2], commented_out |-> c,
                      model |-> DEFAULT_MODEL,
                      api_token_file |-> f[1],
                      api_endpoint |-> IF e[1] = "cli" /\ ~e[2] THEN NONE_TEXT
                                       ELSE ENDPOINT,
                      show_off |-> so],
            repo |-> [SmallRepo EXCEPT !.state = st],
            environ |-> env,
            tokenfile |-> f[2],
            server |-> s] :
             e \in {<<"api", FALSE>>, <<"cli", FALSE>>, <<"cli", TRUE>>},
             c \in BOOLEAN, so \in {0, 2},
             f \in TokenOptions, env \in Environs,
             st \in {"ok", "not_a_repo", "git_error"}, s \in Endpoints }

---------------------------------------------------------------------------
(* The run. *)

NotGathered ==
    [lookback |-> [count |-> 0, result |-> <<>>],
     files |-> [count |-> 0, result |-> <<>>],
     diff |-> [via |-> "none", context |-> 0, result |-> <<>>]]

Init ==
    \E w \in Worlds :
        /\ args = w.args
        /\ repo = w.repo
        /\ environ = w.environ
        /\ tokenfile = w.tokenfile
        /\ server = w.server
        /\ pc = IF w.args.entry = "cli" THEN "main" ELSE "generate"
        /\ gathered = NotGathered
        /\ prompt = <<>>
        /\ sent = <<>>
        /\ nread = 0
        /\ yielded = <<>>
        /\ exc = <<>>
        /\ out = <<>>

world == <<args, repo, environ, tokenfile, server>>

\* main: the group's callback invokes the command when no subcommand is named
MainInvoke ==
    /\ pc = "main"
    /\ ~args.subcommand
    /\ pc' = "cmd"
    /\ UNCHANGED <<world, gathered, prompt, sent, nread, yielded, exc, out>>

\* click dispatches to the subcommand the command line names
MainDispatch ==
    /\ pc = "main"
    /\ args.subcommand
    /\ pc' = "cmd"
    /\ UNCHANGED <<world, gathered, prompt, sent, nread, yielded, exc, out>>

\* _generate_cmd: the call of generate with its keyword arguments; Python
\* raises TypeError at the call for a keyword the function does not declare
GenerateCmd ==
    /\ pc = "cmd"
    /\ IF GENERATE_CMD_KWARGS \subseteq GENERATE_PARAMS
       THEN pc' = "generate" /\ exc' = exc
       ELSE pc' = "crashed" /\ exc' = MSG_TYPE_ERROR
    /\ UNCHANGED <<world, gathered, prompt, sent, nread, yielded, out>>

\* generate, to its try statement: the leading '#'
GenerateEnter ==
    /\ pc = "generate"
    /\ out' = IF args.commented_out THEN out \o <<"#">> ELSE out
    /\ pc' = "prompt"
    /\ UNCHANGED <<world, gathered, prompt, sent, nread, yielded, exc>>

\* prompt = _generate_prompt()
GeneratePrompt ==
    /\ pc = "prompt"
    /\ LET r == _generate_prompt(repo)
       IN  IF r.raised
           THEN /\ exc' = r.error
                /\ pc' = "except"
                /\ UNCHANGED <<gathered, prompt>>
           ELSE /\ gathered' = [lookback |-> r.lookback, files |-> r.files,
                                diff |-> r.diff]
                /\ prompt' = r.prompt
                /\ pc' = "query"
                /\ exc' = exc
    /\ UNCHANGED <<world, sent, nread, yielded, out>>

\* _query_llm, from its first line to the loop over resp.iter_lines(): it runs
\* when the for statement of generate asks for the first chunk
QueryLLM ==
    /\ pc = "query"
    /\ LET k == _get_api_key(args.api_token_file, environ, tokenfile)
           req == post_request(args.model, args.api_endpoint, k.key, prompt)
           st == raise_for_status(server.status, server.reason, req.url)
       IN  IF k.raised
           THEN exc' = k.error /\ pc' = "except" /\ sent' = sent
           ELSE /\ sent' = Append(sent, req)
                /\ IF ~server.up
                   THEN exc' = MSG_CONNECTION /\ pc' = "except"
                   ELSE IF st.raised
                   THEN exc' = st.error /\ pc' = "except"
                   ELSE exc' = exc /\ pc' = "stream"
    /\ UNCHANGED <<world, gathered, prompt, nread, yielded, out>>

\* one turn of the loop of _query_llm, with the turn of the loop of generate
\* that prints the chunk it yields
StreamLine ==
    /\ pc = "stream"
    /\ nread < Len(server.lines)
    /\ nread' = nread + 1
    /\ LET r == stream_line(server.lines[nread + 1])
       IN  CASE r.do = "skip" ->
                    UNCHANGED <<pc, yielded, exc, out>>
             [] r.do = "break" ->
                    pc' = "final" /\ UNCHANGED <<yielded, exc, out>>
             [] r.do = "raise" ->
                    pc' = "except" /\ exc' = r.error /\ UNCHANGED <<yielded, out>>
             [] r.do = "yield" ->
                    /\ yielded' = Append(yielded, r.content)
                    /\ out' = out \o commented(args.commented_out, r.content)
                    /\ UNCHANGED <<pc, exc>>
    /\ UNCHANGED <<world, gathered, prompt, sent>>

\* the response ends: so do _query_llm and the loop of generate
StreamEnd ==
    /\ pc = "stream"
    /\ nread = Len(server.lines)
    /\ pc' = "final"
    /\ UNCHANGED <<world, gathered, prompt, sent, nread, yielded, exc, out>>

\* except Exception as e: print(error)
HandleException ==
    /\ pc = "except"
    /\ out' = out \o error_line(args.commented_out, exc) \o <<"\n">>
    /\ pc' = "final"
    /\ UNCHANGED <<world, gathered, prompt, sent, nread, yielded, exc>>

\* print(flush=True)
FinalNewline ==
    /\ pc = "final"
    /\ out' = out \o <<"\n">>
    /\ pc' = "done"
    /\ UNCHANGED <<world, gathered, prompt, sent, nread, yielded, exc>>

Next ==
    \/ MainInvoke
    \/ MainDispatch
    \/ GenerateCmd
    \/ GenerateEnter
    \/ GeneratePrompt
    \/ QueryLLM
    \/ StreamLine
    \/ StreamEnd
    \/ HandleException
    \/ FinalNewline

Spec == Init /\ [][Next]_vars

---------------------------------------------------------------------------
(* The claims. *)

\* _generate_prompt has returned its three blocks
Gathered == gathered.diff.via # "none"

\* the staged paths of the repository, and whether even three of them overflow
StagedNow == staged_paths(repo.staged)

\* C1: the staged-file list is at most 3840 characters and the staged diff at
\* most 40960, whichever return statement they left by (the first loop, the
\* second loop, the last-resort truncation); when the last resort is taken
\* (the three-file list, or the diff of the second loop at width 2, is over
\* the budget) the length is exactly the budget.
C1_WithinBudget ==
    Gathered =>
        /\ Len(gathered.files.result) <= 3840
        /\ Len(gathered.diff.result) <= 40960
        /\ gathered.diff.via \in {"phase1", "phase2", "truncate"}
        /\ gathered.diff.via # "truncate" => gathered.diff.context \in 2..9
        /\ gathered.diff.via = "truncate" => Len(gathered.diff.result) = 40960
        /\ Len(files_render(StagedNow, 3)) > 3840
              => Len(gathered.files.result) = 3840

\* C1's case: neither loop of _get_staged_diff fits, and the diff is cut to the
\* budget
C1_Witness ==
    /\ Gathered
    /\ gathered.diff.via = "truncate"
    /\ Len(gathered.diff.result) = 40960

FirstFit(lengths, lo, hi, budget) ==
    IF \E k \in lo..hi : lengths[k] <= budget
    THEN CHOOSE k \in lo..hi :
            /\ lengths[k] <= budget
            /\ \A j \in (k + 1)..hi : lengths[j] > budget
    ELSE 0

\* C3 as stated: when some count 10..3 (48..3 for files) renders within the
\* budget, a length equal to the budget included, the value returned is the
\* rendering of the largest such count, unmodified; when none does, it is the
\* first budget-3 characters of the rendering at 3 and the ellipsis.
C3_Claim ==
    (Gathered /\ pc = "query") =>
        LET commits == repo.commits
            lb == list([k \in 1..10 |-> Len(lookback_render(commits, k))])
            kl == FirstFit(lb, 3, 10, MAX_LOOKBACK_CHARS)
            fl == list([k \in 1..48 |-> Len(files_render(StagedNow, k))])
            kf == FirstFit(fl, 3, 48, MAX_STAGED_FILES_CHARS)
        IN  /\ gathered.lookback.result =
                  IF kl > 0 THEN lookback_render(commits, kl)
                  ELSE SubSeq(lookback_render(commits, 3), 1, MAX_LOOKBACK_CHARS - 3)
                       \o ELLIPSIS
            /\ gathered.files.result =
                  IF kf > 0 THEN files_render(StagedNow, kf)
                  ELSE SubSeq(files_render(StagedNow, 3), 1, MAX_STAGED_FILES_CHARS - 3)
                       \o ELLIPSIS

\* the payload of a data line
Payload(line) == SubSeq(line, Len(DATA_PREFIX) + 1, Len(line))

IsData(line) == Len(line) >= Len(DATA_PREFIX) /\ SubSeq(line, 1, Len(DATA_PREFIX)) = DATA_PREFIX

IsDone(line) == IsData(line) /\ Payload(line) = DONE

\* a data line whose payload is a JSON object with choices[0].delta
WellFormed(line) ==
    /\ IsData(line)
    /\ \E doc \in JSON_DOCS : doc.text = Payload(line) /\ "choices" \in DOMAIN doc.value

\* a data line, other than the sentinel, that is not well formed
Broken(line) == IsData(line) /\ ~IsDone(line) /\ ~WellFormed(line)

\* choices[0].delta.content of a well-formed line, empty when absent
ContentOf(line) ==
    LET delta == (CHOOSE doc \in JSON_DOCS : doc.text = Payload(line)).value.choices[1].delta
    IN  IF "content" \in DOMAIN delta THEN delta.content ELSE <<>>

\* the non-empty contents of the well-formed lines among lines, in order
RECURSIVE Contents(_)
Contents(lines) ==
    IF lines = <<>> THEN <<>>
    ELSE LET last == lines[Len(lines)]
             rest == Contents(SubSeq(lines, 1, Len(lines) - 1))
         IN  IF WellFormed(last) /\ ContentOf(last) # <<>>
             THEN Append(rest, ContentOf(last))
             ELSE rest

\* the lines before the first line that satisfies Stop(_), and how many lines
\* are read to get there
Before(lines, Stop(_)) ==
    IF \E i \in 1..Len(lines) : Stop(lines[i])
    THEN SubSeq(lines, 1, (CHOOSE i \in 1..Len(lines) :
                             Stop(lines[i]) /\ \A j \in 1..(i - 1) : ~Stop(lines[j])) - 1)
    ELSE lines

ReadTo(lines, Stop(_)) == Min(Len(Before(lines, Stop)) + 1, Len(lines))

\* the response was a 2xx and the stream has ended
StreamOver ==
    /\ pc = "done"
    /\ sent # <<>>
    /\ server.up
    /\ server.status \in 200..299

\* C4 as stated: on a 2xx response the fragments yielded are exactly the
\* non-empty contents of the well-formed data lines before the first
\* data: [DONE], in order, and no line after it is read.
C4_Claim ==
    StreamOver =>
        /\ yielded = Contents(Before(server.lines, IsDone))
        /\ nread <= ReadTo(server.lines, IsDone)

\* a line that ends the stream: the sentinel, or a data line that fails to parse
Ends(line) == IsDone(line) \/ Broken(line)

\* C4, amended: on a 2xx response the fragments yielded are, at every moment,
\* the non-empty contents of the well-formed data lines read so far, in order;
\* no line is read past the first data: [DONE] or the first data line that
\* fails to parse, whichever comes first, so at the end they are exactly those
\* of the lines before it; blank lines, lines without the prefix and lines
\* with absent or empty content yield nothing.
C4_YieldsUntilDoneOrFailure ==
    (sent # <<>> /\ server.up /\ server.status \in 200..299) =>
        /\ nread <= ReadTo(server.lines, Ends)
        /\ yielded = Contents(SubSeq(server.lines, 1, nread))
        /\ pc = "done" =>
              /\ nread = ReadTo(server.lines, Ends)
              /\ yielded = Contents(Before(server.lines, Ends))

\* C4's case: fragments were yielded, the sentinel was read, lines after it
\* were left unread
C4_Witness ==
    /\ StreamOver
    /\ yielded # <<>>
    /\ IsDone(server.lines[nread])
    /\ nread < Len(server.lines)

\* the leading '#'
Lead == IF args.commented_out THEN <<"#">> ELSE <<>>

\* text with '#' after each of its newlines when commented_out
Marked(text) == IF args.commented_out THEN replace_newlines(text) ELSE text

\* the fragments as printed, one after the other
RECURSIVE Printed(_)
Printed(fragments) ==
    IF fragments = <<>> THEN <<>>
    ELSE Printed(SubSeq(fragments, 1, Len(fragments) - 1))
         \o Marked(fragments[Len(fragments)])

\* C5: in a run of generate in which gathering, assembling or streaming fails
\* after k fragments were printed, the output is those fragments in order,
\* then ERROR: and the description, its newline, and the trailing newline; the
\* exception does not leave generate; after the failure no line is read (the
\* last line read is the one that failed) and no request is issued (there is
\* at most one, and none after a failure before it).
C5_ErrorAfterFragments ==
    args.entry = "api" =>
        /\ pc # "crashed"
        /\ Len(sent) <= 1
        /\ (exc # <<>>) =>
              /\ pc \in {"except", "final", "done"}
              /\ nread = 0 \/ Broken(server.lines[nread])
              /\ Len(yielded) = Len(Contents(SubSeq(server.lines, 1, nread)))
              /\ pc = "except" => out = Lead \o Printed(yielded)
              /\ pc = "final" =>
                    out = Lead \o Printed(yielded)
                          \o Marked(ERROR_PREFIX \o exc) \o <<"\n">>
              /\ pc = "done" =>
                    out = Lead \o Printed(yielded)
                          \o Marked(ERROR_PREFIX \o exc) \o <<"\n">> \o <<"\n">>

\* C5's case: one fragment, then a data line that is not JSON
C5_Witness ==
    /\ pc = "done"
    /\ yielded = <<HELLO>>
    /\ exc = MSG_JSON_DECODE
    /\ server.lines[nread] = DATA_PREFIX \o NOT_JSON

\* the response body
Body == join(<<"\n">>, server.lines)

\* the request was sent and the endpoint answered with a status
Answered == sent # <<>> /\ server.up

\* C6 as stated: for every status that is not a 2xx the run yields no
\* fragment and prints an ERROR: line that contains the response body.
C6_Claim ==
    (Answered /\ server.status \notin 200..299 /\ pc = "done") =>
        /\ yielded = <<>>
        /\ Contains(out, ERROR_PREFIX)
        /\ Contains(out, Body)

\* C6, amended: for every 4xx or 5xx status the run fails before a line is
\* read or a fragment yielded, with an error that carries the status, the
\* reason phrase and the URL, not the body: the output is the line
\* ERROR: <status> Client Error|Server Error: <reason> for url: <url> and the
\* trailing newline. Any other status raises nothing: the body is streamed.
C6_StatusErrorLine ==
    Answered =>
        /\ (server.status \in 400..599 /\ pc \notin {"query", "stream"}) =>
              /\ yielded = <<>>
              /\ nread = 0
              /\ exc = str_int(server.status)
                       \o (IF server.status < 500 THEN CLIENT_ERROR ELSE SERVER_ERROR)
                       \o server.reason \o FOR_URL \o sent[1].url
              /\ pc = "done" =>
                    out = Lead \o ERROR_PREFIX \o exc \o <<"\n", "\n">>
        /\ (server.status \notin 400..599 /\ pc = "done") =>
              nread = ReadTo(server.lines, Ends)

\* C6's case: a 500 whose body is "server overloaded": the body is not printed
C6_Witness ==
    /\ Answered
    /\ pc = "done"
    /\ server.status = 500
    /\ server.lines = <<OVERLOADED>>
    /\ ~Contains(out, OVERLOADED)

\* neither the token file nor the environment gives a non-empty key
NoKey ==
    IF args.api_token_file = None
    THEN ~environ.set \/ environ.value = <<>>
    ELSE tokenfile.exists /\ strip(tokenfile.text) = <<>>

\* C7 as stated: no request carries an empty key, and when neither source
\* gives a non-empty key the run fails with the configuration error and
\* issues no request.
C7_Claim ==
    /\ \A i \in 1..Len(sent) : sent[i].authorization # BEARER
    /\ NoKey => sent = <<>>
    /\ (NoKey /\ pc = "done" /\ args.entry = "api" /\ repo.state = "ok") => exc # <<>>

\* C8: in commented_out mode the output of generate begins with '#', and each
\* newline in it is followed by '#' unless it ends the output or an error line
\* before the trailing newline: every non-empty line starts with '#'. The
\* fragments Hello and \nWorld give #Hello\n#World and the trailing newline.
C8_CommentedLines ==
    (args.commented_out /\ pc \in {"prompt", "query", "stream", "except", "final", "done"}) =>
        /\ out # <<>> /\ out[1] = "#"
        /\ \A i \in 1..Len(out) :
              out[i] = "\n" =>
                  \/ i = Len(out)
                  \/ out[i + 1] = "#"
                  \/ out[i + 1] = "\n" /\ i + 1 = Len(out) /\ exc # <<>>
        /\ (pc = "done" /\ yielded = <<HELLO, WORLD>> /\ exc = <<>>) =>
              out = <<"#", "H", "e", "l", "l", "o", "\n", "#", "W", "o", "r", "l", "d", "\n">>

\* C8's case: a fragment with a newline, then an error
C8_Witness ==
    /\ args.commented_out
    /\ pc = "done"
    /\ yielded = <<HELLO, WORLD>>
    /\ exc # <<>>

\* C9 as stated: every invocation of the command enters generate and ends
\* with the trailing newline, instead of failing at the call.
C9_Claim == args.entry = "cli" => pc # "crashed"

\* the patch the claim describes, for a threshold of pieces
Described(patch, c, least) ==
    LET lines == split(patch)
    IN  IF Len(patch) > 20480 /\ Len(lines) >= least
        THEN join(<<"\n">>, SubSeq(lines, 1, 2 * c) \o <<TRUNCATED_MARKER>>
                             \o SubSeq(lines, Len(lines) - 2 * c + 1, Len(lines)))
        ELSE patch

\* the context widths the second loop of _get_staged_diff went through
Phase2Widths ==
    IF ~Gathered \/ gathered.diff.via = "phase1" THEN {}
    ELSE gathered.diff.context..9

\* C10 as stated: in the second loop at width c a patch over 20480 characters
\* with at least 2*c*2+1 lines is replaced by its first 2*c lines, the marker
\* line and its last 2*c lines; any other patch is kept whole.
C10_Claim ==
    pc = "query" =>
        \A c \in Phase2Widths :
            LET patches == patch_set(repo.staged, c)
                processed == processed_diffs(repo.staged, c)
            IN  \A i \in 1..Len(patches) :
                    processed[i] = Described(patches[i], c, 2 * c * 2 + 1)

\* C10, amended: in the second loop at width c a patch is altered only if it
\* is over 20480 characters; such a patch that split('\n') cuts into more than
\* 2*c*2+1 pieces (the empty piece after a last newline counts) is replaced by
\* its first 2*c pieces, the marker line and its last 2*c pieces, joined by
\* newlines; a patch of at most 2*c*2+1 pieces is kept whole. The candidate is
\* the concatenation of the results in the order of the patches.
C10_TruncatesOverThreshold ==
    pc = "query" =>
        /\ \A c \in Phase2Widths :
              LET patches == patch_set(repo.staged, c)
                  processed == processed_diffs(repo.staged, c)
              IN  /\ Len(processed) = Len(patches)
                  /\ \A i \in 1..Len(patches) :
                        processed[i] = Described(patches[i], c, 2 * c * 2 + 2)
        /\ gathered.diff.via = "phase2" =>
              LET c == gathered.diff.context
                  patches == patch_set(repo.staged, c)
              IN  gathered.diff.result =
                      join(<<>>, list([i \in 1..Len(patches) |->
                                          Described(patches[i], c, 2 * c * 2 + 2)]))

\* C10's case: the second loop returns a diff in which one patch over half the
\* budget has exactly 2*c*2+1 pieces and is whole, and another has more and is
\* cut
C10_Witness ==
    /\ pc = "query"
    /\ gathered.diff.via = "phase2"
    /\ LET c == gathered.diff.context
           patches == patch_set(repo.staged, c)
       IN  /\ \E i \in 1..Len(patches) :
                 Len(patches[i]) > 20480 /\ Len(split(patches[i])) = 2 * c * 2 + 1
           /\ \E i \in 1..Len(patches) :
                 Len(patches[i]) > 20480 /\ Len(split(patches[i])) > 2 * c * 2 + 1

====
